---- MODULE Spec2Model ----
(***************************************************************************)
(* cc-standup (src/cli.mjs): parse a proof-log, aggregate its sessions by  *)
(* project and render a standup report.                                    *)
(*                                                                         *)
(* Text is modelled as TLA+ strings, one character per UTF-16 code unit of *)
(* the JavaScript string, so that lengths and substring positions are the  *)
(* program's.  A TLA+ string holds ASCII only, so every non-ASCII code     *)
(* unit of the source's literals is written as one ASCII stand-in:         *)
(*                                                                         *)
(*    "- どこで: "      "- DKE: "         "- 誰が: CC: "    "- WG: CC: "   *)
(*    "件"             "N"               "- 何を: "        "- NO: "        *)
(*    "ファイル変更"     "FAIRHK"          "- いつ: "        "- IT: "        *)
(*    "（" "分" "）"    "{" "M" "}"       "—" (U+2014)      "~"             *)
(*    "•" (U+2022)     "*"               "✅" (U+2705)     "v"             *)
(*    the backquote     "^"                                                *)
(*    an emoji outside the BMP (two code units): two stand-ins,            *)
(*    "📋" "[]"   "👻" "oo"   "📊" "||"   "🔜" ">>"   "🤖" "<>"            *)
(***************************************************************************)
EXTENDS Integers, Sequences, FiniteSets

VARIABLES
  pc,             \* position in the program
  fileState,      \* the log file: "missing", "unreadable" or "readable"
  content,        \* the text of the log file, held as the sequence of its lines
  lines,          \* content.split('\n') inside parseProofLog
  idx,            \* position of the running for..of loop
  sessions,       \* parseProofLog: sessions; top level: the parsed sessions
  current,        \* parseProofLog: current
  isGhostDay,
  byProject,      \* own properties of byProject, in insertion order
  totals,         \* totalMinutes, totalSessions, totalLines, totalFiles, totalActions
  sortedProjects,
  outputFormat,
  targetDate,
  parts,          \* the formatter's list of lines (lines / parts)
  output

vars == <<pc, fileState, content, lines, idx, sessions, current, isGhostDay,
          byProject, totals, sortedProjects, outputFormat, targetDate, parts, output>>

\* JavaScript's null.
null == <<>>

-----------------------------------------------------------------------------
\* Bounds of the model.

\* Lines of a log text given to the parser on its own.
MaxLines == 5

\* Session blocks of a log file given to the whole program.
MaxBlocks == 4

-----------------------------------------------------------------------------
\* Strings.

CharAt(s, i) == SubSeq(s, i, i)

Max(S) == CHOOSE x \in S : \A y \in S : y <= x

Min(S) == CHOOSE x \in S : \A y \in S : x <= y

\* s.startsWith(lit, i - 1): lit occurs in s at position i (1-based).
LitAt(s, i, lit) ==
  /\ i >= 1
  /\ i + Len(lit) - 1 <= Len(s)
  /\ SubSeq(s, i, i + Len(lit) - 1) = lit

\* \d of a regular expression without the u flag: an ASCII digit.
IsDigit(c) == c \in {"0", "1", "2", "3", "4", "5", "6", "7", "8", "9"}

DigitVal(c) ==
  CASE c = "0" -> 0 [] c = "1" -> 1 [] c = "2" -> 2 [] c = "3" -> 3 [] c = "4" -> 4
    [] c = "5" -> 5 [] c = "6" -> 6 [] c = "7" -> 7 [] c = "8" -> 8 [] c = "9" -> 9

DigitChar(d) == CharAt("0123456789", d + 1)

\* The length of the longest run of digits of s that starts at position i:
\* what a greedy \d+ takes there.
RECURSIVE DigitRun(_, _)
DigitRun(s, i) ==
  IF i >= 1 /\ i <= Len(s) /\ IsDigit(CharAt(s, i)) THEN 1 + DigitRun(s, i + 1) ELSE 0

\* parseInt(s, 10) of a string of digits.
RECURSIVE ParseInt(_)
ParseInt(s) ==
  IF Len(s) = 0 THEN 0
  ELSE 10 * ParseInt(SubSeq(s, 1, Len(s) - 1)) + DigitVal(CharAt(s, Len(s)))

\* `${n}` of a non-negative integer.
RECURSIVE NumToString(_)
NumToString(n) ==
  IF n < 10 THEN DigitChar(n) ELSE NumToString(n \div 10) \o DigitChar(n % 10)

\* White space and line terminators, which String.prototype.trim strips.
IsSpace(c) == c \in {" ", "\t", "\n", "\r", "\f"}

\* A line terminator, which `.` of a regular expression does not match.
IsLineTerminator(c) == c \in {"\n", "\r"}

\* String.prototype.trim
RECURSIVE TrimStart(_)
TrimStart(s) ==
  IF Len(s) > 0 /\ IsSpace(CharAt(s, 1)) THEN TrimStart(SubSeq(s, 2, Len(s))) ELSE s

RECURSIVE TrimEnd(_)
TrimEnd(s) ==
  IF Len(s) > 0 /\ IsSpace(CharAt(s, Len(s))) THEN TrimEnd(SubSeq(s, 1, Len(s) - 1)) ELSE s

Trim(s) == TrimEnd(TrimStart(s))

\* Array.prototype.join(sep)
RECURSIVE Join(_, _)
Join(seq, sep) ==
  IF Len(seq) = 0 THEN ""
  ELSE IF Len(seq) = 1 THEN seq[1]
  ELSE seq[1] \o sep \o Join(Tail(seq), sep)

-----------------------------------------------------------------------------
\* The five patterns of the proof-log.  Each operator is RegExp.prototype.exec
\* on a line: null when the line does not match, else the captured groups.

\* "d" stands for \d, any other character for itself.
HEADER_SHAPE == "### dddd-dd-dd dd:dd-dd:dd JST"

\* /^### (\d{4}-\d{2}-\d{2}) (\d{2}:\d{2})-(\d{2}:\d{2}) JST/
SESSION_HEADER(line) ==
  IF /\ Len(line) >= Len(HEADER_SHAPE)
     /\ \A i \in 1..Len(HEADER_SHAPE) :
          IF CharAt(HEADER_SHAPE, i) = "d"
            THEN IsDigit(CharAt(line, i))
            ELSE CharAt(line, i) = CharAt(HEADER_SHAPE, i)
  THEN <<SubSeq(line, 5, 14), SubSeq(line, 16, 20), SubSeq(line, 22, 26)>>
  ELSE null

WHERE_PREFIX == "- DKE: "

\* /^- どこで: (.+)$/
WHERE_LINE(line) ==
  LET p == Len(WHERE_PREFIX)
  IN  IF /\ LitAt(line, 1, WHERE_PREFIX)
         /\ Len(line) > p
         /\ \A i \in (p + 1)..Len(line) : ~IsLineTerminator(CharAt(line, i))
      THEN <<SubSeq(line, p + 1, Len(line))>>
      ELSE null

WHO_PREFIX == "- WG: CC: "

\* /^- 誰が: CC: (\d+)件/
WHO_LINE(line) ==
  LET p == Len(WHO_PREFIX)
      n == DigitRun(line, p + 1)
  IN  IF /\ LitAt(line, 1, WHO_PREFIX)
         /\ n >= 1
         /\ LitAt(line, p + 1 + n, "N")
      THEN <<SubSeq(line, p + 1, p + n)>>
      ELSE null

WHAT_PREFIX == "- NO: "

WHAT_FILES == "FAIRHK (+"

\* /^- 何を: (\d+)ファイル変更 \(\+(\d+)\/-(\d+)\)/
WHAT_LINE(line) ==
  LET a  == Len(WHAT_PREFIX) + 1
      na == DigitRun(line, a)
      b  == a + na + Len(WHAT_FILES)
      nb == DigitRun(line, b)
      c  == b + nb + 2
      nc == DigitRun(line, c)
  IN  IF /\ LitAt(line, 1, WHAT_PREFIX)
         /\ na >= 1
         /\ LitAt(line, a + na, WHAT_FILES)
         /\ nb >= 1
         /\ LitAt(line, b + nb, "/-")
         /\ nc >= 1
         /\ LitAt(line, c + nc, ")")
      THEN <<SubSeq(line, a, a + na - 1), SubSeq(line, b, b + nb - 1),
             SubSeq(line, c, c + nc - 1)>>
      ELSE null

DURATION_PREFIX == "- IT: "

DURATION_MARK == "JST{"

\* /^- いつ: .+JST（(\d+)分）/ : the greedy .+ takes the longest run of
\* characters (none a line terminator) after which the rest still matches, so
\* the minutes are those of the last marker of the line.
DURATION_LINE(line) ==
  LET p == Len(DURATION_PREFIX)
      m == Len(DURATION_MARK)
      at == {j \in (p + 2)..Len(line) :
               /\ LitAt(line, j, DURATION_MARK)
               /\ \A i \in (p + 1)..(j - 1) : ~IsLineTerminator(CharAt(line, i))
               /\ DigitRun(line, j + m) >= 1
               /\ LitAt(line, j + m + DigitRun(line, j + m), "M}")}
  IN  IF LitAt(line, 1, DURATION_PREFIX) /\ at # {}
      THEN <<SubSeq(line, Max(at) + m, Max(at) + m + DigitRun(line, Max(at) + m) - 1)>>
      ELSE null

-----------------------------------------------------------------------------
\* parseProofLog

\* A header that keeps the fields of the session before it.
NewSessionCarriesOver(headerMatch) ==
  IF current # null
    THEN [current EXCEPT !.date = headerMatch[1]]
    ELSE [date |-> headerMatch[1], durationMin |-> 0, project |-> null, ccActions |-> 0,
          filesChanged |-> 0, linesAdded |-> 0, linesRemoved |-> 0]

\* The session a header opens.
NewSession(headerMatch) ==
  [date |-> headerMatch[1], durationMin |-> 0, project |-> null, ccActions |-> 0,
   filesChanged |-> 0, linesAdded |-> 0, linesRemoved |-> 0]

\* A project label: JavaScript's null is <<>>, the string p is <<p>>.
Label(p) == <<p>>

\* The branch of the loop body that a raw line takes.
Branch(cur, raw) ==
  LET line == Trim(raw)
  IN  IF SESSION_HEADER(line) # null THEN "header"
      ELSE IF cur = null THEN "nosession"
      ELSE IF DURATION_LINE(line) # null THEN "duration"
      ELSE IF WHERE_LINE(line) # null THEN "where"
      ELSE IF WHO_LINE(line) # null THEN "who"
      ELSE IF WHAT_LINE(line) # null THEN "what"
      ELSE "none"

\* An iteration that takes a line it does not recognize for the end of the
\* block: the open session is dropped.
ParseLineEndsBlock(st, raw) ==
  LET line == Trim(raw)
      b == Branch(st.current, raw)
  IN  CASE b = "header" ->
             [sessions |-> IF st.current # null
                             THEN Append(st.sessions, st.current)
                             ELSE st.sessions,
              current  |-> NewSession(SESSION_HEADER(line))]
        [] b = "nosession" -> st
        [] b = "duration" ->
             [st EXCEPT !.current.durationMin = ParseInt(DURATION_LINE(line)[1])]
        [] b = "where" ->
             [st EXCEPT !.current.project = Label(Trim(WHERE_LINE(line)[1]))]
        [] b = "who" ->
             [st EXCEPT !.current.ccActions = ParseInt(WHO_LINE(line)[1])]
        [] b = "what" ->
             [st EXCEPT !.current.filesChanged = ParseInt(WHAT_LINE(line)[1]),
                        !.current.linesAdded   = ParseInt(WHAT_LINE(line)[2]),
                        !.current.linesRemoved = ParseInt(WHAT_LINE(line)[3])]
        [] b = "none" -> [st EXCEPT !.current = null]

\* An iteration whose where line starts the record afresh, so that the fields
\* read before it are lost.
ParseLineWhereResets(st, raw) ==
  LET line == Trim(raw)
      b == Branch(st.current, raw)
  IN  CASE b = "header" ->
             [sessions |-> IF st.current # null
                             THEN Append(st.sessions, st.current)
                             ELSE st.sessions,
              current  |-> NewSession(SESSION_HEADER(line))]
        [] b = "nosession" -> st
        [] b = "duration" ->
             [st EXCEPT !.current.durationMin = ParseInt(DURATION_LINE(line)[1])]
        [] b = "where" ->
             [st EXCEPT !.current =
                [NewSession(<<st.current.date>>) EXCEPT
                   !.project = Label(Trim(WHERE_LINE(line)[1]))]]
        [] b = "who" ->
             [st EXCEPT !.current.ccActions = ParseInt(WHO_LINE(line)[1])]
        [] b = "what" ->
             [st EXCEPT !.current.filesChanged = ParseInt(WHAT_LINE(line)[1]),
                        !.current.linesAdded   = ParseInt(WHAT_LINE(line)[2]),
                        !.current.linesRemoved = ParseInt(WHAT_LINE(line)[3])]
        [] b = "none" -> st

\* One iteration of the loop over the lines: the parser's sessions and current
\* after the raw line.
ParseLine(st, raw) ==
  LET line == Trim(raw)
      b == Branch(st.current, raw)
  IN  CASE b = "header" ->
             [sessions |-> IF st.current # null
                             THEN Append(st.sessions, st.current)
                             ELSE st.sessions,
              current  |-> NewSession(SESSION_HEADER(line))]
        [] b = "nosession" -> st
        [] b = "duration" ->
             [st EXCEPT !.current.durationMin = ParseInt(DURATION_LINE(line)[1])]
        [] b = "where" ->
             [st EXCEPT !.current.project = Label(Trim(WHERE_LINE(line)[1]))]
        [] b = "who" ->
             [st EXCEPT !.current.ccActions = ParseInt(WHO_LINE(line)[1])]
        [] b = "what" ->
             [st EXCEPT !.current.filesChanged = ParseInt(WHAT_LINE(line)[1]),
                        !.current.linesAdded   = ParseInt(WHAT_LINE(line)[2]),
                        !.current.linesRemoved = ParseInt(WHAT_LINE(line)[3])]
        [] b = "none" -> st

\* A parser that filters: the open session is pushed only with a project.
FinishOnlyWithProject(st) ==
  IF st.current # null /\ st.current.project # null
    THEN Append(st.sessions, st.current)
    ELSE st.sessions

\* The sessions returned after the loop: the open session is pushed.
Finish(st) ==
  IF st.current # null THEN Append(st.sessions, st.current) ELSE st.sessions

RECURSIVE ParseLines(_, _)
ParseLines(st, ls) ==
  IF Len(ls) = 0 THEN st ELSE ParseLines(ParseLine(st, Head(ls)), Tail(ls))

\* content.split('\n').  A text is held as the sequence of the strings that
\* its newlines separate (none holds a newline, and there is at least one: the
\* empty text is <<"">>), which is what split('\n') returns.
Split(text) == text

\* parseProofLog(content), as one call.
ParseProofLog(text) ==
  Finish(ParseLines([sessions |-> <<>>, current |-> null], Split(text)))

-----------------------------------------------------------------------------
\* Date helpers.

\* A string of the form YYYY-MM-DD that names a day of the calendar.
IsCalendarDate(dateStr) ==
  /\ Len(dateStr) = 10
  /\ \A i \in 1..10 :
       IF i \in {5, 8} THEN CharAt(dateStr, i) = "-" ELSE IsDigit(CharAt(dateStr, i))
  /\ LET y == ParseInt(SubSeq(dateStr, 1, 4))
         m == ParseInt(SubSeq(dateStr, 6, 7))
         d == ParseInt(SubSeq(dateStr, 9, 10))
         leap == (y % 4 = 0 /\ y % 100 # 0) \/ y % 400 = 0
         dim == <<31, IF leap THEN 29 ELSE 28, 31, 30, 31, 30, 31, 31, 30, 31, 30, 31>>
     IN  m \in 1..12 /\ d >= 1 /\ d <= dim[m]

\* dayOfWeek: days[new Date(dateStr + 'T00:00:00').getDay()], the weekday of
\* the local calendar date.  A string that names no date gives an invalid
\* Date, getDay() is NaN and days[NaN] is undefined.
dayOfWeek(dateStr) ==
  LET days == <<"Sun", "Mon", "Tue", "Wed", "Thu", "Fri", "Sat">>
      t == <<0, 3, 2, 5, 0, 3, 5, 1, 4, 6, 2, 4>>
      m == ParseInt(SubSeq(dateStr, 6, 7))
      d == ParseInt(SubSeq(dateStr, 9, 10))
      y == ParseInt(SubSeq(dateStr, 1, 4)) - (IF m < 3 THEN 1 ELSE 0)
  IN  IF IsCalendarDate(dateStr)
        THEN days[((y + y \div 4 - y \div 100 + y \div 400 + t[m] + d) % 7) + 1]
        ELSE "undefined"

fmtHours(min) ==
  LET h == min \div 60
      m == min % 60
  IN  IF h > 0 THEN NumToString(h) \o "h " \o NumToString(m) \o "m"
      ELSE NumToString(m) \o "m"

\* Number.prototype.toLocaleString() of a non-negative integer in the en-US
\* locale: groups of three digits separated by commas.
RECURSIVE toLocaleString(_)
toLocaleString(n) ==
  IF n < 1000 THEN NumToString(n)
  ELSE toLocaleString(n \div 1000) \o ","
         \o DigitChar((n % 1000) \div 100) \o DigitChar((n % 100) \div 10)
         \o DigitChar(n % 10)

\* (n / 1000).toFixed(1): n / 1000 to the nearest tenth.  (When n % 100 = 50
\* the binary value of n / 1000 decides the direction; the model's inputs
\* have no such n.)
toFixed1(n) ==
  LET tenths == (n + 50) \div 100
  IN  NumToString(tenths \div 10) \o "." \o DigitChar(tenths % 10)

-----------------------------------------------------------------------------
\* Load and aggregate.

\* The properties that every plain object inherits from Object.prototype:
\* byProject[k] is an object or a function, hence truthy, for each of them
\* although byProject has no own property k.
OBJECT_PROTOTYPE_KEYS ==
  {"__proto__", "constructor", "hasOwnProperty", "isPrototypeOf",
   "propertyIsEnumerable", "toLocaleString", "toString", "valueOf",
   "__defineGetter__", "__defineSetter__", "__lookupGetter__", "__lookupSetter__"}

ZeroTotals == [minutes |-> 0, sessions |-> 0, lines |-> 0, files |-> 0, actions |-> 0]

\* The position of the own property k of byProject, 0 when there is none.
OwnIndex(bp, k) ==
  LET at == {i \in 1..Len(bp) : bp[i].key = k}
  IN  IF at = {} THEN 0 ELSE Min(at)

\* The body of the loop over the sessions after `if (!s.project) continue`:
\* the totals.
AddToTotals(t, s) ==
  [minutes  |-> t.minutes + s.durationMin,
   sessions |-> t.sessions + 1,
   lines    |-> t.lines + s.linesAdded,
   files    |-> t.files + s.filesChanged,
   actions  |-> t.actions + s.ccActions]

\* The same body: byProject.  A label that names an inherited property finds
\* a truthy byProject[label], so no bucket is made, and the four += write to
\* the inherited object, which is no own property of byProject.
AddToProject(bp, s) ==
  LET k == s.project[1]
      i == OwnIndex(bp, k)
      add(b) == [key |-> k,
                 minutes    |-> b.minutes + s.durationMin,
                 sessions   |-> b.sessions + 1,
                 linesAdded |-> b.linesAdded + s.linesAdded,
                 files      |-> b.files + s.filesChanged]
  IN  IF i > 0 THEN [bp EXCEPT ![i] = add(bp[i])]
      ELSE IF k \in OBJECT_PROTOTYPE_KEYS THEN bp
      ELSE Append(bp, add([minutes |-> 0, sessions |-> 0, linesAdded |-> 0, files |-> 0]))

\* An array index: the canonical decimal string of an integer in 0..2^32 - 2.
IsArrayIndex(k) ==
  /\ Len(k) >= 1
  /\ \A i \in 1..Len(k) : IsDigit(CharAt(k, i))
  /\ (Len(k) > 1 => CharAt(k, 1) # "0")
  /\ Len(k) <= 9

\* Object.entries(byProject): the own properties, those whose key is an array
\* index first, in ascending numeric order, then the others in the order of
\* their creation.
RECURSIVE InsertByIndex(_, _)
InsertByIndex(e, seq) ==
  IF Len(seq) = 0 THEN <<e>>
  ELSE IF ParseInt(e.key) < ParseInt(seq[1].key) THEN <<e>> \o seq
  ELSE <<seq[1]>> \o InsertByIndex(e, Tail(seq))

RECURSIVE IndexEntries(_)
IndexEntries(bp) ==
  IF Len(bp) = 0 THEN <<>>
  ELSE IF IsArrayIndex(bp[Len(bp)].key)
    THEN InsertByIndex(bp[Len(bp)], IndexEntries(SubSeq(bp, 1, Len(bp) - 1)))
    ELSE IndexEntries(SubSeq(bp, 1, Len(bp) - 1))

ObjectEntries(bp) ==
  IndexEntries(bp) \o SelectSeq(bp, LAMBDA e : ~IsArrayIndex(e.key))

\* Array.prototype.sort((a, b) => b[1].minutes - a[1].minutes): a stable sort
\* (ECMAScript 2019), by minutes, largest first.
RECURSIVE InsertByMinutes(_, _)
InsertByMinutes(e, seq) ==
  IF Len(seq) = 0 THEN <<e>>
  ELSE IF seq[Len(seq)].minutes - e.minutes >= 0 THEN Append(seq, e)
  ELSE Append(InsertByMinutes(e, SubSeq(seq, 1, Len(seq) - 1)), seq[Len(seq)])

RECURSIVE SortByMinutes(_)
SortByMinutes(seq) ==
  IF Len(seq) = 0 THEN <<>>
  ELSE InsertByMinutes(seq[Len(seq)], SortByMinutes(SubSeq(seq, 1, Len(seq) - 1)))

-----------------------------------------------------------------------------
\* The three formats.  Each operator gives the list of lines the function
\* builds; r is the aggregated state [date, ghost, totals, projects].

Names(projects) == [i \in 1..Len(projects) |-> projects[i].key]

Ticked(names) == [i \in 1..Len(names) |-> "^" \o names[i] \o "^"]

\* A test of the flag alone, without the count of sessions.
IsGhostFlagOnly(r) == r.ghost

\* if (isGhostDay || totalSessions === 0)
IsGhost(r) == r.ghost \/ r.totals.sessions = 0

PLAIN_GHOST == "oo Ghost Day ~ AI worked autonomously. No sessions logged."

PlainProject(e) ==
  "  * " \o e.key \o " ~ "
    \o Join(<<fmtHours(e.minutes)>>
              \o (IF e.sessions > 0 THEN <<NumToString(e.sessions) \o " sessions">> ELSE <<>>)
              \o (IF e.linesAdded > 0
                    THEN <<"+" \o toLocaleString(e.linesAdded) \o " lines">> ELSE <<>>),
            " | ")

formatPlainLines(r) ==
  <<"[] AI Standup ~ " \o r.date \o " (" \o dayOfWeek(r.date) \o ")", "">>
  \o (IF IsGhost(r)
        THEN <<PLAIN_GHOST, "">>
        ELSE <<"v Yesterday's work:">>
             \o [i \in 1..Len(r.projects) |-> PlainProject(r.projects[i])]
             \o <<"",
                  "|| Total: "
                    \o Join(<<fmtHours(r.totals.minutes),
                              NumToString(r.totals.sessions) \o " sessions",
                              "+" \o toLocaleString(r.totals.lines) \o " lines">>
                            \o (IF r.totals.files > 0
                                  THEN <<NumToString(r.totals.files) \o " files">>
                                  ELSE <<>>),
                            " | "),
                  "">>)
  \o (IF Len(r.projects) > 0
        THEN <<">> Continuing: " \o Join(Names(r.projects), ", "), "">>
        ELSE <<>>)
  \o <<"Generated by cc-standup">>

SLACK_GHOST == "oo *Ghost Day* ~ AI worked autonomously. No sessions logged."

SlackProject(e) ==
  "* ^" \o e.key \o "^ ~ "
    \o Join(<<fmtHours(e.minutes)>>
              \o (IF e.linesAdded > 0
                    THEN <<"+" \o toLocaleString(e.linesAdded) \o " lines">> ELSE <<>>),
            ", ")

formatSlackLines(r) ==
  <<"*AI Standup ~ " \o r.date \o " (" \o dayOfWeek(r.date) \o ")*", "">>
  \o (IF IsGhost(r)
        THEN <<SLACK_GHOST>>
        ELSE <<"v *Yesterday's work:*">>
             \o [i \in 1..Len(r.projects) |-> SlackProject(r.projects[i])]
             \o <<"",
                  "|| *Total:* " \o fmtHours(r.totals.minutes) \o " | "
                    \o NumToString(r.totals.sessions) \o " sessions | +"
                    \o toLocaleString(r.totals.lines) \o " lines">>
             \o (IF Len(r.projects) > 0
                   THEN <<">> *Continuing:* " \o Join(Ticked(Names(r.projects)), ", ")>>
                   ELSE <<>>))

\* String.prototype.slice(5)
Slice5(s) == IF Len(s) > 5 THEN SubSeq(s, 6, Len(s)) ELSE ""

\* A micro-post that lists every project.
TopProjectsAll(projects) == projects

\* The projects the micro-post lists: sortedProjects.slice(0, 3).
TopProjects(projects) ==
  SubSeq(projects, 1, IF Len(projects) < 3 THEN Len(projects) ELSE 3)

TweetProject(e) ==
  "v " \o e.key \o ": " \o fmtHours(e.minutes)
    \o (IF e.linesAdded > 0 THEN " (+" \o toFixed1(e.linesAdded) \o "K lines)" ELSE "")

TWEET_GHOST == "Ghost Day ~ AI ran autonomously"

formatTweetParts(r) ==
  IF IsGhost(r)
    THEN <<"AI Standup " \o Slice5(r.date) \o " oo", TWEET_GHOST, "#claudecode">>
    ELSE <<"AI Standup " \o Slice5(r.date) \o " <>">>
         \o [i \in 1..Len(TopProjects(r.projects)) |-> TweetProject(TopProjects(r.projects)[i])]
         \o <<"",
              "Total: " \o fmtHours(r.totals.minutes) \o " | "
                \o NumToString(r.totals.sessions) \o " sessions",
              "#claudecode #aidev">>

\* A cut at the limit itself, which the appended dots then exceed.
TweetTextCutsAtLimit(tweet) ==
  IF Len(tweet) > 280 THEN SubSeq(tweet, 1, 280) \o "..." ELSE tweet

\* The end of formatTweet: the joined text, cut when it is too long.
TweetText(tweet) ==
  IF Len(tweet) > 280 THEN SubSeq(tweet, 1, 277) \o "..." ELSE tweet

-----------------------------------------------------------------------------
\* Inputs.

HEADER_1 == "### 2026-02-27 09:00-10:30 JST"

DURATION_90 == "- IT: 2026-02-27 09:00-10:30 JST{90M}"

DURATION_5 == "- IT: 2026-02-27 11:00-11:05 JST{5M}"

\* The raw lines a log text is made of: a header, the four field lines (one
\* of them indented and ended by a carriage return) and a field line whose
\* number is malformed, which matches no pattern.
RawLines ==
  {HEADER_1,
   "- DKE: alpha",
   "  - WG: CC: 7N\r",
   "- NO: 3FAIRHK (+120/-5)",
   DURATION_90,
   "- WG: CC: xN"}

SeqsUpTo(S, n) == UNION {[1..k -> S] : k \in 0..n}

\* The empty text, one line without characters.
EMPTY_TEXT == <<"">>

\* The log texts given to the parser.
ParserContents == {IF ls = <<>> THEN EMPTY_TEXT ELSE ls : ls \in SeqsUpTo(RawLines, MaxLines)}

RECURSIVE Repeat(_, _)
Repeat(s, n) == IF n = 0 THEN "" ELSE s \o Repeat(s, n - 1)

LONG_LABEL == Repeat("long-project-", 21)

\* The session blocks a log file is made of, each the sequence of its lines.
Blocks ==
  {<<HEADER_1>>,
   <<HEADER_1, DURATION_90, "- DKE: alpha", "- WG: CC: 7N", "- NO: 3FAIRHK (+120/-5)">>,
   <<HEADER_1, "- DKE: beta", DURATION_90>>,
   <<HEADER_1, "- DKE: 42", DURATION_90>>,
   <<HEADER_1, "- DKE: constructor", DURATION_5>>,
   <<HEADER_1, "- DKE: " \o LONG_LABEL, DURATION_90, "- NO: 40FAIRHK (+15000/-0)">>}

RECURSIVE Flatten(_)
Flatten(seqs) == IF Len(seqs) = 0 THEN <<>> ELSE Head(seqs) \o Flatten(Tail(seqs))

\* The texts of a readable log file.
FileContents ==
  {IF bs = <<>> THEN EMPTY_TEXT ELSE Flatten(bs) : bs \in SeqsUpTo(Blocks, MaxBlocks)}

\* The values of --date.
Dates == {"2026-02-27", "yesterday"}

-----------------------------------------------------------------------------
\* parseProofLog, one iteration of its loop at a time.

ParserInit ==
  /\ pc = "loop"
  /\ fileState = "readable"
  /\ content \in ParserContents
  /\ lines = Split(content)
  /\ idx = 1
  /\ sessions = <<>>
  /\ current = null
  /\ isGhostDay = FALSE
  /\ byProject = <<>>
  /\ totals = ZeroTotals
  /\ sortedProjects = <<>>
  /\ outputFormat = ""
  /\ targetDate = ""
  /\ parts = <<>>
  /\ output = ""

\* The line at idx takes branch b of the loop body.
Taking(b) ==
  /\ pc = "loop"
  /\ idx <= Len(lines)
  /\ Branch(current, lines[idx]) = b

\* The parser's sessions and current after the line at idx.
AfterLine == ParseLine([sessions |-> sessions, current |-> current], lines[idx])

reportVars == <<pc, fileState, content, lines, isGhostDay, byProject, totals,
                sortedProjects, outputFormat, targetDate, parts, output>>

HeaderLine ==
  /\ Taking("header")
  /\ sessions' = AfterLine.sessions
  /\ current' = AfterLine.current
  /\ idx' = idx + 1
  /\ UNCHANGED reportVars

\* if (!current) continue
NoSessionLine ==
  /\ Taking("nosession")
  /\ sessions' = AfterLine.sessions
  /\ current' = AfterLine.current
  /\ idx' = idx + 1
  /\ UNCHANGED reportVars

DurationLine ==
  /\ Taking("duration")
  /\ sessions' = AfterLine.sessions
  /\ current' = AfterLine.current
  /\ idx' = idx + 1
  /\ UNCHANGED reportVars

WhereLine ==
  /\ Taking("where")
  /\ sessions' = AfterLine.sessions
  /\ current' = AfterLine.current
  /\ idx' = idx + 1
  /\ UNCHANGED reportVars

WhoLine ==
  /\ Taking("who")
  /\ sessions' = AfterLine.sessions
  /\ current' = AfterLine.current
  /\ idx' = idx + 1
  /\ UNCHANGED reportVars

WhatLine ==
  /\ Taking("what")
  /\ sessions' = AfterLine.sessions
  /\ current' = AfterLine.current
  /\ idx' = idx + 1
  /\ UNCHANGED reportVars

\* No pattern matches: the loop goes on to the next line.
OtherLine ==
  /\ Taking("none")
  /\ sessions' = AfterLine.sessions
  /\ current' = AfterLine.current
  /\ idx' = idx + 1
  /\ UNCHANGED reportVars

\* After the loop: push the open session and return.
Return ==
  /\ pc = "loop"
  /\ idx > Len(lines)
  /\ sessions' = Finish([sessions |-> sessions, current |-> current])
  /\ pc' = "parsed"
  /\ UNCHANGED <<fileState, content, lines, idx, current, isGhostDay, byProject,
                 totals, sortedProjects, outputFormat, targetDate, parts, output>>

ParserNext ==
  \/ HeaderLine
  \/ NoSessionLine
  \/ DurationLine
  \/ WhereLine
  \/ WhoLine
  \/ WhatLine
  \/ OtherLine
  \/ Return

ParserSpec == ParserInit /\ [][ParserNext]_vars

-----------------------------------------------------------------------------
\* The program: load, aggregate, sort, format.

Init ==
  /\ pc = "load"
  /\ \/ fileState \in {"missing", "unreadable"} /\ content = EMPTY_TEXT
     \/ fileState = "readable" /\ content \in FileContents
  /\ lines = <<>>
  /\ idx = 1
  /\ sessions = <<>>
  /\ current = null
  /\ isGhostDay = FALSE
  /\ byProject = <<>>
  /\ totals = ZeroTotals
  /\ sortedProjects = <<>>
  /\ outputFormat = ""
  /\ targetDate = ""
  /\ parts = <<>>
  /\ output = ""

\* existsSync(filePath) is false: isGhostDay, and nothing is read.
LoadMissing ==
  /\ pc = "load"
  /\ fileState = "missing"
  /\ isGhostDay' = TRUE
  /\ pc' = "sort"
  /\ UNCHANGED <<fileState, content, lines, idx, sessions, current, byProject, totals,
                 sortedProjects, outputFormat, targetDate, parts, output>>

\* readFileSync throws: the catch block leaves the totals as they are.
LoadUnreadable ==
  /\ pc = "load"
  /\ fileState = "unreadable"
  /\ isGhostDay' = FALSE
  /\ pc' = "sort"
  /\ UNCHANGED <<fileState, content, lines, idx, sessions, current, byProject, totals,
                 sortedProjects, outputFormat, targetDate, parts, output>>

\* readFileSync and parseProofLog(content).
LoadAndParse ==
  /\ pc = "load"
  /\ fileState = "readable"
  /\ isGhostDay' = FALSE
  /\ sessions' = ParseProofLog(content)
  /\ idx' = 1
  /\ pc' = "aggregate"
  /\ UNCHANGED <<fileState, content, lines, current, byProject, totals,
                 sortedProjects, outputFormat, targetDate, parts, output>>

\* if (!s.project) continue
SkipSession ==
  /\ pc = "aggregate"
  /\ idx <= Len(sessions)
  /\ sessions[idx].project = null
  /\ idx' = idx + 1
  /\ UNCHANGED <<pc, fileState, content, lines, sessions, current, isGhostDay, byProject,
                 totals, sortedProjects, outputFormat, targetDate, parts, output>>

AggregateSession ==
  /\ pc = "aggregate"
  /\ idx <= Len(sessions)
  /\ sessions[idx].project # null
  /\ totals' = AddToTotals(totals, sessions[idx])
  /\ byProject' = AddToProject(byProject, sessions[idx])
  /\ idx' = idx + 1
  /\ UNCHANGED <<pc, fileState, content, lines, sessions, current, isGhostDay,
                 sortedProjects, outputFormat, targetDate, parts, output>>

\* const sortedProjects = Object.entries(byProject).sort(...)
Sort ==
  /\ pc = "sort" \/ (pc = "aggregate" /\ idx > Len(sessions))
  /\ sortedProjects' = SortByMinutes(ObjectEntries(byProject))
  /\ pc' = "format"
  /\ UNCHANGED <<fileState, content, lines, idx, sessions, current, isGhostDay, byProject,
                 totals, outputFormat, targetDate, parts, output>>

\* The aggregated state the formatters read.
Report(date) ==
  [date |-> date, ghost |-> isGhostDay, totals |-> totals, projects |-> sortedProjects]

aggregateVars == <<fileState, content, lines, idx, sessions, current, isGhostDay,
                   byProject, totals, sortedProjects>>

\* case default: output = formatPlain()
formatPlain ==
  /\ pc = "format"
  /\ \E date \in Dates :
       /\ targetDate' = date
       /\ parts' = formatPlainLines(Report(date))
       /\ output' = Join(formatPlainLines(Report(date)), "\n")
  /\ outputFormat' = "plain"
  /\ pc' = "done"
  /\ UNCHANGED aggregateVars

\* case 'slack': output = formatSlack()
formatSlack ==
  /\ pc = "format"
  /\ \E date \in Dates :
       /\ targetDate' = date
       /\ parts' = formatSlackLines(Report(date))
       /\ output' = Join(formatSlackLines(Report(date)), "\n")
  /\ outputFormat' = "slack"
  /\ pc' = "done"
  /\ UNCHANGED aggregateVars

\* case 'tweet': output = formatTweet()
formatTweet ==
  /\ pc = "format"
  /\ \E date \in Dates :
       /\ targetDate' = date
       /\ parts' = formatTweetParts(Report(date))
       /\ output' = TweetText(Join(formatTweetParts(Report(date)), "\n"))
  /\ outputFormat' = "tweet"
  /\ pc' = "done"
  /\ UNCHANGED aggregateVars

Next ==
  \/ LoadMissing
  \/ LoadUnreadable
  \/ LoadAndParse
  \/ SkipSession
  \/ AggregateSession
  \/ Sort
  \/ formatPlain
  \/ formatSlack
  \/ formatTweet

Spec == Init /\ [][Next]_vars

-----------------------------------------------------------------------------
\* Properties of parseProofLog, checked under ParserSpec.

IsHeader(raw) == SESSION_HEADER(Trim(raw)) # null

IsDuration(raw) == ~IsHeader(raw) /\ DURATION_LINE(Trim(raw)) # null

IsWhere(raw) == ~IsHeader(raw) /\ WHERE_LINE(Trim(raw)) # null

IsWho(raw) == ~IsHeader(raw) /\ WHO_LINE(Trim(raw)) # null

IsWhat(raw) == ~IsHeader(raw) /\ WHAT_LINE(Trim(raw)) # null

\* The raw line matches none of the five patterns.
MatchesNothing(raw) ==
  ~IsHeader(raw) /\ ~IsDuration(raw) /\ ~IsWhere(raw) /\ ~IsWho(raw) /\ ~IsWhat(raw)

\* The positions of the header lines among the first n lines.
HeadersIn(n) == {i \in 1..n : IsHeader(lines[i])}

\* The k-th smallest member of the set H of positions.
Kth(H, k) == CHOOSE i \in H : Cardinality({h \in H : h <= i}) = k

\* The positions of the lines of the k-th block, H being the positions of the
\* headers: after the k-th header and before the next one.
Block(H, k) ==
  LET later == {i \in H : i > Kth(H, k)}
  IN  (Kth(H, k) + 1)..(IF later = {} THEN Len(lines) ELSE Min(later) - 1)

\* C1: the number of sessions parseProofLog returns is the number of header
\* lines of the text; while the loop runs, the sessions pushed and the open one
\* are as many as the headers read so far, so each header opens exactly one
\* session and none is pushed twice or lost.
C1_SessionPerHeader ==
  /\ pc = "loop" =>
       Len(sessions) + (IF current # null THEN 1 ELSE 0) = Cardinality(HeadersIn(idx - 1))
  /\ pc = "parsed" => Len(sessions) = Cardinality(HeadersIn(Len(lines)))

\* Two headers were read, the second block has no project and was pushed at the
\* end of the input.
C1_Witness ==
  /\ pc = "parsed"
  /\ Cardinality(HeadersIn(Len(lines))) = 2
  /\ Len(sessions) = 2
  /\ sessions[1].project # null
  /\ sessions[2].project = null

\* C6: a header opens a session whose numeric fields are zero and whose
\* project is absent, and a field of a returned session differs from that only
\* if a line of its kind stands in the session's own block.
C6_DefaultsUnlessInBlock ==
  /\ (pc = "loop" /\ idx > 1 /\ IsHeader(lines[idx - 1])) =>
       /\ current # null
       /\ current.durationMin = 0 /\ current.ccActions = 0 /\ current.filesChanged = 0
       /\ current.linesAdded = 0 /\ current.linesRemoved = 0 /\ current.project = null
  /\ pc = "parsed" =>
       LET H == HeadersIn(Len(lines))
       IN  \A k \in 1..Len(sessions) :
             LET B == Block(H, k)
             IN  /\ sessions[k].durationMin # 0 => \E i \in B : IsDuration(lines[i])
                 /\ sessions[k].project # null => \E i \in B : IsWhere(lines[i])
                 /\ sessions[k].ccActions # 0 => \E i \in B : IsWho(lines[i])
                 /\ (sessions[k].filesChanged # 0 \/ sessions[k].linesAdded # 0
                       \/ sessions[k].linesRemoved # 0) => \E i \in B : IsWhat(lines[i])

\* A block with a duration, a project and counts is followed by a block that
\* has a header only.
C6_Witness ==
  /\ pc = "parsed"
  /\ Len(sessions) = 2
  /\ sessions[1].durationMin = 90 /\ sessions[1].project # null /\ sessions[1].linesAdded = 120
  /\ Block(HeadersIn(Len(lines)), 2) = {}
  /\ sessions[2].durationMin = 0 /\ sessions[2].project = null /\ sessions[2].linesAdded = 0

\* The lines without those that match none of the five patterns.
Recognized(ls) == SelectSeq(ls, LAMBDA raw : ~MatchesNothing(raw))

\* C7: a line that matches none of the five patterns, and any line that is no
\* header while no session is open, changes neither the sessions pushed nor the
\* open session, and the loop goes on with the next line; the sessions returned
\* are those of the text without its unmatched lines.
C7_IgnoredLinesChangeNothing ==
  /\ [][(/\ pc = "loop"
         /\ idx <= Len(lines)
         /\ (MatchesNothing(lines[idx]) \/ (current = null /\ ~IsHeader(lines[idx]))))
        => (sessions' = sessions /\ current' = current /\ idx' = idx + 1 /\ pc' = "loop")]_vars
  /\ [](pc = "parsed" => sessions = ParseProofLog(Recognized(lines)))

\* A field line stands before the first header, and in the block a line with a
\* malformed number is followed by a where line that was parsed.
C7_Witness ==
  /\ pc = "parsed"
  /\ Len(lines) = 4
  /\ IsWho(lines[1])
  /\ IsHeader(lines[2])
  /\ MatchesNothing(lines[3])
  /\ IsWhere(lines[4])
  /\ Len(sessions) = 1
  /\ sessions[1].project # null
  /\ sessions[1].ccActions = 0

\* The bijections of 1..n, for every n up to the number of lines of a text.
Permutations ==
  [n \in 0..MaxLines |-> {f \in [1..n -> 1..n] : \A i, j \in 1..n : f[i] = f[j] => i = j}]

\* The lines ls hold at most one line of each of the four kinds.
AtMostOneOfEach(ls) ==
  /\ Cardinality({i \in 1..Len(ls) : IsDuration(ls[i])}) <= 1
  /\ Cardinality({i \in 1..Len(ls) : IsWhere(ls[i])}) <= 1
  /\ Cardinality({i \in 1..Len(ls) : IsWho(ls[i])}) <= 1
  /\ Cardinality({i \in 1..Len(ls) : IsWhat(ls[i])}) <= 1

\* The record of a block: the parser's open session after the header and the
\* given lines.
RecordOf(header, ls) ==
  ParseLines([sessions |-> <<>>, current |-> null], <<header>> \o ls).current

\* C8: the session of a block with at most one line of each kind is the same
\* for every order of the block's lines, and a where line changes the project
\* only, a who line the action count only, a what line the three counts of
\* files and lines only, a duration line the minutes only.
C8_OrderInsensitive ==
  /\ [](pc = "parsed" =>
         LET H == HeadersIn(Len(lines))
         IN  \A k \in 1..Len(sessions) :
               LET h == Kth(H, k)
                   n == Cardinality(Block(H, k))
                   block == [i \in 1..n |-> lines[h + i]]
               IN  AtMostOneOfEach(block) =>
                     \A f \in Permutations[n] :
                       RecordOf(lines[h], [i \in 1..n |-> block[f[i]]]) = sessions[k])
  /\ [][(pc = "loop" /\ idx <= Len(lines) /\ current # null /\ ~IsHeader(lines[idx])) =>
          /\ sessions' = sessions
          /\ IsWhere(lines[idx]) => current' = [current EXCEPT !.project = current'.project]
          /\ IsWho(lines[idx]) => current' = [current EXCEPT !.ccActions = current'.ccActions]
          /\ IsWhat(lines[idx]) =>
               current' = [current EXCEPT !.filesChanged = current'.filesChanged,
                                          !.linesAdded = current'.linesAdded,
                                          !.linesRemoved = current'.linesRemoved]
          /\ IsDuration(lines[idx]) =>
               current' = [current EXCEPT !.durationMin = current'.durationMin]]_vars

\* A block holds the four field lines, the what line first and the duration
\* line last, and its session has all four of them.
C8_Witness ==
  /\ pc = "parsed"
  /\ Len(lines) = 5
  /\ IsHeader(lines[1])
  /\ IsWhat(lines[2])
  /\ IsWho(lines[3])
  /\ IsWhere(lines[4])
  /\ IsDuration(lines[5])
  /\ sessions = <<[date |-> "2026-02-27", durationMin |-> 90, project |-> <<"alpha">>,
                   ccActions |-> 7, filesChanged |-> 3, linesAdded |-> 120,
                   linesRemoved |-> 5]>>

-----------------------------------------------------------------------------
\* Properties of the aggregation and of the formats, checked under Spec.

\* The sessions the aggregation retains: those with a project.
Retained(ss) == SelectSeq(ss, LAMBDA x : x.project # null)

RECURSIVE SumDuration(_)
SumDuration(ss) == IF Len(ss) = 0 THEN 0 ELSE Head(ss).durationMin + SumDuration(Tail(ss))

RECURSIVE SumMinutes(_)
SumMinutes(ps) == IF Len(ps) = 0 THEN 0 ELSE Head(ps).minutes + SumMinutes(Tail(ps))

RECURSIVE SumSessions(_)
SumSessions(ps) == IF Len(ps) = 0 THEN 0 ELSE Head(ps).sessions + SumSessions(Tail(ps))

\* The aggregation is over.
Aggregated == pc \in {"format", "done"}

\* The position of the first session with the project label k.
FirstSeen(k) == Min({i \in 1..Len(sessions) : sessions[i].project = Label(k)})

\* The report is the ghost-day report of its format.
GhostRendered ==
  \E i \in 1..Len(parts) :
    parts[i] = (CASE outputFormat = "plain" -> PLAIN_GHOST
                  [] outputFormat = "slack" -> SLACK_GHOST
                  [] outputFormat = "tweet" -> TWEET_GHOST)

\* C2: the grand total of minutes is the sum of the minutes of the retained
\* sessions and the sum of the minutes of the entries of the project list.
C2_TotalMinutesAgree ==
  Aggregated =>
    /\ totals.minutes = SumDuration(Retained(sessions))
    /\ totals.minutes = SumMinutes(sortedProjects)

\* C3: the project list is in non-increasing order of minutes, and two
\* projects with equal minutes are in the order in which their labels were
\* first met in the sessions.
C3_SortedAndStable ==
  Aggregated =>
    \A i, j \in 1..Len(sortedProjects) :
      i < j =>
        /\ sortedProjects[i].minutes >= sortedProjects[j].minutes
        /\ sortedProjects[i].minutes = sortedProjects[j].minutes =>
             FirstSeen(sortedProjects[i].key) < FirstSeen(sortedProjects[j].key)

\* C4: the report is the ghost-day report exactly when no session is retained;
\* a missing file, an unreadable file and an empty file give it, in each format.
C4_GhostIffNothingRetained ==
  pc = "done" =>
    /\ GhostRendered <=> Len(Retained(sessions)) = 0
    /\ (fileState \in {"missing", "unreadable"} \/ content = EMPTY_TEXT) => GhostRendered

\* A readable file with two sessions, neither with a project, is reported as a
\* ghost day.
C4_Witness ==
  /\ pc = "done"
  /\ fileState = "readable"
  /\ Len(sessions) = 2
  /\ Retained(sessions) = <<>>
  /\ outputFormat = "slack"
  /\ GhostRendered

\* C5: the micro-post has at most 280 characters; when the joined lines have
\* more, it is their first 277 characters and three dots, 280 in all, and when
\* they have not, it is the joined lines.
C5_TweetWithinLimit ==
  (pc = "done" /\ outputFormat = "tweet") =>
    LET tweet == Join(parts, "\n")
    IN  /\ Len(output) <= 280
        /\ Len(tweet) > 280 => (output = SubSeq(tweet, 1, 277) \o "..." /\ Len(output) = 280)
        /\ Len(tweet) <= 280 => output = tweet

\* The joined lines of a micro-post exceed 280 characters.
C5_Witness ==
  /\ pc = "done"
  /\ outputFormat = "tweet"
  /\ Len(Join(parts, "\n")) > 280
  /\ Len(output) = 280

Min3(n) == IF n < 3 THEN n ELSE 3

\* The positions at which the lines of a text start.
LineStarts(text) == {1} \cup {i + 1 : i \in {j \in 1..Len(text) : CharAt(text, j) = "\n"}}

\* The number of per-project lines of a micro-post.
ProjectLinesIn(text) == Cardinality({p \in LineStarts(text) : LitAt(text, p, "v ")})

\* The report is a micro-post that is no ghost-day report.
WorkTweet == pc = "done" /\ outputFormat = "tweet" /\ ~GhostRendered

\* Of the projects, the first k are listed: none of the others has more minutes
\* than one of them.
TopByMinutes(k) ==
  \A i \in 1..k : \A j \in (k + 1)..Len(sortedProjects) :
    sortedProjects[j].minutes <= sortedProjects[i].minutes

C10_ProjectsAreTheLabels ==
  /\ Aggregated =>
       /\ {sortedProjects[i].key : i \in 1..Len(sortedProjects)}
            = {Retained(sessions)[i].project[1] : i \in 1..Len(Retained(sessions))}
       /\ SumSessions(sortedProjects) = totals.sessions
       /\ (isGhostDay \/ totals.sessions = 0) <=> Len(sortedProjects) = 0
  /\ (pc = "done" /\ GhostRendered) =>
       \A i \in 1..Len(parts) :
         ~LitAt(parts[i], 1, ">> Continuing") /\ ~LitAt(parts[i], 1, ">> *Continuing")

====
